---- MODULE Spec2Model ----
(***************************************************************************)
(* State-machine model of src/src/app/handler.py (AsyncTokenAnalyzer):     *)
(* the chunked Transfer-log scan with retries, the balance aggregation,    *)
(* the top-N ranking and the last-transaction lookup.                      *)
(*                                                                         *)
(* Accounts are modelled as naturals (an address is a 160-bit number);     *)
(* 0 is the zero address.  A raw log of the chain is a record              *)
(*   [blockNumber, from, to, value, ok]                                    *)
(* where ok says whether get_event_data can decode it; its identity is its *)
(* position in the chain.  The ledger service answers a range query with   *)
(* the matching logs in ascending chain order.                             *)
(***************************************************************************)
EXTENDS Integers, Sequences, FiniteSets, TLC

VARIABLES
    op,             \* the entry point that was called
    pc,             \* position of the running coroutine
    chain,          \* the raw Transfer logs of the token, ascending by block
    height,         \* w3.eth.block_number of the node
    chunk_size,     \* parameter chunk_size of _get_all_transfer_events
    n,              \* parameter n of get_top_holders / get_top_with_transactions
    decimals,       \* self.decimals
    current_block,  \* local current_block of the scan
    from_block,     \* local from_block
    to_block,       \* local to_block
    retries,        \* local retries
    events,         \* local events (decoded, in append order)
    queries,        \* range queries issued so far: [fromBlock, toBlock, attempt, outcome]
    balances,       \* local balances: dict in insertion order, <<addr, bal>> each
    top_holders,    \* value returned by get_top_holders
    results,        \* local results of get_top_with_transactions
    address,        \* parameter address of _get_last_transaction_date
    incoming_tx,    \* local incoming_tx (chain positions)
    outgoing_tx,    \* local outgoing_tx (chain positions)
    lookups,        \* activity queries issued so far (get_logs with topics, get_block)
    ret,            \* what the entry point returned, or how it ended
    self_decimals,  \* self.decimals of the shared analyzer: <<>> is None, <<d>> is d
    self_symbol,    \* self.symbol of the shared analyzer: <<>> is None
    addresses,      \* parameter addresses of get_balance_batch
    tasks           \* the get_balance coroutines handed to asyncio.gather

scanVars == <<current_block, from_block, to_block, retries, events, queries>>
topVars  == <<balances, top_holders, results>>
lookVars == <<address, incoming_tx, outgoing_tx, lookups>>
inVars   == <<op, chain, height, chunk_size, n, decimals>>
srvVars  == <<self_decimals, self_symbol, addresses, tasks>>
vars     == <<inVars, pc, scanVars, topVars, lookVars, ret, srvVars>>

\* ------------------------------------------------------------------ bounds
MaxHeight  == 2     \* chain heights 0..MaxHeight
MaxChunk   == 3     \* chunk sizes 1..MaxChunk
MaxLogs    == 2     \* raw logs on the chain of a scan
MaxQueries == 6     \* range queries after which the model stops following a scan
MaxTopQueries == 4  \* the same, for a scan run inside get_top_holders
MaxEvents  == 3     \* length of the event sequences folded and ranked
MaxN       == 2     \* largest n asked of the ranking
MaxHistory == 2     \* raw logs on the chain of an activity lookup
MaxBatch   == 2     \* addresses in one get_balance_batch request

\* ------------------------------------------------------- program constants
ZeroAddress == 0    \* '0x0000000000000000000000000000000000000000'
max_retries == 3    \* default of parameter max_retries

Holders  == {1, 2}
Accounts == {ZeroAddress} \cup Holders
Amounts  == {40, 100}
\* how an entry point ended
NoValue      == [kind |-> "none", value |-> <<>>]
Returned(v)  == [kind |-> "return", value |-> v]
Raised       == [kind |-> "raise", value |-> <<>>]

Min(a, b) == IF a <= b THEN a ELSE b
Max(a, b) == IF a >= b THEN a ELSE b

RECURSIVE Pow10(_)
Pow10(k) == IF k = 0 THEN 1 ELSE 10 * Pow10(k - 1)

\* ------------------------------------------------------------ the ledger
\* All sequences of at most maxLen raw logs drawn from logSet, ascending by block.
ChainsOf(logSet, maxLen) ==
    { s \in UNION { [1..k -> logSet] : k \in 0..maxLen } :
        \A j \in 1..(Len(s) - 1) : s[j].blockNumber <= s[j + 1].blockNumber }

RawLogs(blocks, froms, tos, values, oks) ==
    [blockNumber : blocks, from : froms, to : tos, value : values, ok : oks]

\* The positions of S as a sequence, ascending: the order the node answers in.
RECURSIVE Ascending(_)
Ascending(S) ==
    IF S = {} THEN <<>>
    ELSE LET m == CHOOSE x \in S : \A y \in S : x <= y
         IN  <<m>> \o Ascending(S \ {m})

\* eth_getLogs for the Transfer topic over the block range [fb, tb].
GetLogs(c, fb, tb) ==
    Ascending({ k \in 1..Len(c) : fb <= c[k].blockNumber /\ c[k].blockNumber <= tb })

\* get_event_data on the raw log at chain position k.
EventOf(c, k) ==
    [idx |-> k, blockNumber |-> c[k].blockNumber,
     from |-> c[k].from, to |-> c[k].to, value |-> c[k].value]

RECURSIVE DecodeLogsAborting(_, _)
DecodeLogsAborting(c, logs) ==
    IF logs = <<>> \/ ~ c[Head(logs)].ok THEN <<>>
    ELSE <<EventOf(c, Head(logs))>> \o DecodeLogsAborting(c, Tail(logs))

\* The loop over logs: a log that fails to decode is printed and skipped.
RECURSIVE DecodeLogs(_, _)
DecodeLogs(c, logs) ==
    IF logs = <<>> THEN <<>>
    ELSE (IF c[Head(logs)].ok THEN <<EventOf(c, Head(logs))>> ELSE <<>>)
         \o DecodeLogs(c, Tail(logs))

\* -------------------------------------------------------------- the scan
ToBlockUntruncated(fb, cs, cur) == fb + cs - 1

\* to_block = min(from_block + chunk_size - 1, current_block)
ToBlock(fb, cs, cur) == Min(fb + cs - 1, cur)

NextFromBlockStuck(tb) == tb

\* from_block = to_block + 1, after a successful query
NextFromBlock(tb) == tb + 1

\* one get_logs call of the scan, as the node saw it, and how it ended
Query(fb, tb, attempt, outcome) ==
    [fromBlock |-> fb, toBlock |-> tb, attempt |-> attempt, outcome |-> outcome]

\* events after the logs of a successful query were parsed
AppendDecoded(evs, c, logs) == evs \o DecodeLogs(c, logs)

\* where the model stops following the retries of a scan
QueryCap == IF op = "_get_all_transfer_events" THEN MaxQueries ELSE MaxTopQueries

\* current_block = await self.w3.eth.block_number; from_block = 0
ScanStart ==
    /\ pc = "scan_start"
    /\ current_block' = height
    /\ from_block' = 0
    /\ events' = <<>>
    /\ pc' = "outer"
    /\ UNCHANGED <<inVars, srvVars, to_block, retries, queries, topVars, lookVars, ret>>

\* the block_number call raises
ScanStartFails ==
    /\ pc = "scan_start"
    /\ pc' = IF op = "_get_all_transfer_events" THEN "done" ELSE "top_except"
    /\ ret' = IF op = "_get_all_transfer_events" THEN Raised ELSE ret
    /\ UNCHANGED <<inVars, srvVars, scanVars, topVars, lookVars>>

\* while from_block <= current_block: to_block = ...; retries = 0
OuterEnter ==
    /\ pc = "outer"
    /\ from_block <= current_block
    /\ to_block' = ToBlock(from_block, chunk_size, current_block)
    /\ retries' = 0
    /\ pc' = "inner"
    /\ UNCHANGED <<inVars, srvVars, current_block, from_block, events, queries,
                   topVars, lookVars, ret>>

\* the outer loop ends: return events
ScanReturn ==
    /\ pc = "outer"
    /\ from_block > current_block
    /\ pc' = IF op = "_get_all_transfer_events" THEN "done" ELSE "top_events"
    /\ ret' = IF op = "_get_all_transfer_events" THEN Returned(events) ELSE ret
    /\ UNCHANGED <<inVars, srvVars, scanVars, topVars, lookVars>>

\* while retries < max_retries: the query answers within the timeout
GetLogsOk ==
    /\ pc = "inner"
    /\ retries < max_retries
    /\ Len(queries) < QueryCap
    /\ queries' = Append(queries, Query(from_block, to_block, retries + 1, "ok"))
    /\ events' = AppendDecoded(events, chain, GetLogs(chain, from_block, to_block))
    /\ from_block' = NextFromBlock(to_block)
    /\ pc' = "outer"
    /\ UNCHANGED <<inVars, srvVars, current_block, to_block, retries, topVars, lookVars, ret>>

\* except asyncio.TimeoutError: retries += 1; sleep(2 ** retries)
GetLogsTimeout ==
    /\ pc = "inner"
    /\ retries < max_retries
    /\ Len(queries) < QueryCap
    /\ queries' = Append(queries, Query(from_block, to_block, retries + 1, "timeout"))
    /\ retries' = retries + 1
    /\ pc' = "inner"
    /\ UNCHANGED <<inVars, srvVars, current_block, from_block, to_block, events,
                   topVars, lookVars, ret>>

GetLogsErrorSkips ==
    /\ pc = "inner"
    /\ retries < max_retries
    /\ Len(queries) < QueryCap
    /\ queries' = Append(queries, Query(from_block, to_block, retries + 1, "error"))
    /\ retries' = max_retries
    /\ from_block' = to_block + 1
    /\ pc' = "outer"
    /\ UNCHANGED <<inVars, srvVars, current_block, to_block, events, topVars, lookVars, ret>>

\* except Exception: retries = max_retries; break
GetLogsError ==
    /\ pc = "inner"
    /\ retries < max_retries
    /\ Len(queries) < QueryCap
    /\ queries' = Append(queries, Query(from_block, to_block, retries + 1, "error"))
    /\ retries' = max_retries
    /\ pc' = "outer"
    /\ UNCHANGED <<inVars, srvVars, current_block, from_block, to_block, events,
                   topVars, lookVars, ret>>

\* the inner loop ends because retries reached max_retries
InnerExhausted ==
    /\ pc = "inner"
    /\ retries >= max_retries
    /\ pc' = "outer"
    /\ UNCHANGED <<inVars, srvVars, scanVars, topVars, lookVars, ret>>

ScanNext ==
    \/ ScanStart
    \/ ScanStartFails
    \/ OuterEnter
    \/ ScanReturn
    \/ GetLogsOk
    \/ GetLogsTimeout
    \/ GetLogsError
    \/ InnerExhausted

\* _get_all_transfer_events called on its own
ScanLogs == RawLogs(0..MaxHeight, {ZeroAddress}, {1}, {1}, BOOLEAN)

InitScan ==
    /\ op = "_get_all_transfer_events"
    /\ pc = "scan_start"
    /\ height \in 0..MaxHeight
    /\ chain \in { c \in ChainsOf(ScanLogs, MaxLogs) :
                     \A j \in 1..Len(c) : c[j].blockNumber <= height }
    /\ chunk_size \in 1..MaxChunk
    /\ n = 0
    /\ decimals = 0
    /\ address = ZeroAddress
    /\ current_block = 0
    /\ from_block = 0
    /\ to_block = 0
    /\ retries = 0
    /\ events = <<>>
    /\ queries = <<>>
    /\ balances = <<>>
    /\ top_holders = <<>>
    /\ results = <<>>
    /\ incoming_tx = <<>>
    /\ outgoing_tx = <<>>
    /\ lookups = <<>>
    /\ ret = NoValue
    /\ self_decimals = <<decimals>>
    /\ self_symbol = <<"TKN">>
    /\ addresses = <<>>
    /\ tasks = <<>>

SpecScan == InitScan /\ [][ScanNext]_vars

\* --------------------------------------------------- balances and ranking
\* balances[k] += v on a defaultdict(int); a dict keeps its keys in insertion order
DictAdd(d, k, v) ==
    IF \E j \in 1..Len(d) : d[j][1] = k
    THEN [j \in 1..Len(d) |-> IF d[j][1] = k THEN <<k, d[j][2] + v>> ELSE d[j]]
    ELSE Append(d, <<k, v>>)

ApplyEventUnguarded(d, e) == DictAdd(DictAdd(d, e.from, 0 - e.value), e.to, e.value)

ApplyEventAssign(d, e) ==
    LET d1 == IF e.from # ZeroAddress THEN DictAdd(d, e.from, 0 - e.value) ELSE d
    IN  IF e.to # ZeroAddress
        THEN (IF \E j \in 1..Len(d1) : d1[j][1] = e.to
              THEN [j \in 1..Len(d1) |->
                      IF d1[j][1] = e.to THEN <<e.to, e.value>> ELSE d1[j]]
              ELSE Append(d1, <<e.to, e.value>>))
        ELSE d1

\* the body of the loop over transfer_events
ApplyEvent(d, e) ==
    LET d1 == IF e.from # ZeroAddress THEN DictAdd(d, e.from, 0 - e.value) ELSE d
    IN  IF e.to # ZeroAddress THEN DictAdd(d1, e.to, e.value) ELSE d1

\* the loop over transfer_events, starting from the dict d
RECURSIVE Aggregate(_, _)
Aggregate(d, evs) ==
    IF evs = <<>> THEN d ELSE Aggregate(ApplyEvent(d, Head(evs)), Tail(evs))

\* bal / (10 ** self.decimals): the quotient, kept as numerator and denominator.
\* A float holds it to 53 bits, which orders the balances of this model exactly.
Display(bal, dec) == [num |-> bal, den |-> Pow10(dec)]
DisplayLess(x, y) == x.num * y.den < y.num * x.den

\* non_zero: the (addr, display balance) pairs with bal > 0, in dict order
NonZero(d, dec) ==
    LET RECURSIVE F(_)
        F(j) == IF j > Len(d) THEN <<>>
                ELSE (IF d[j][2] > 0 THEN <<<<d[j][1], Display(d[j][2], dec)>>>> ELSE <<>>)
                     \o F(j + 1)
    IN  F(1)

\* x put into the descending sequence s behind every element that is not smaller
InsertDesc(s, x) ==
    LET before == { j \in 1..Len(s) : ~ DisplayLess(s[j][2], x[2]) }
        k == Cardinality(before)
    IN  SubSeq(s, 1, k) \o <<x>> \o SubSeq(s, k + 1, Len(s))

SortedAscending(s) ==
    LET InsertAsc(t, x) ==
            LET before == { j \in 1..Len(t) : ~ DisplayLess(x[2], t[j][2]) }
                k == Cardinality(before)
            IN  SubSeq(t, 1, k) \o <<x>> \o SubSeq(t, k + 1, Len(t))
        RECURSIVE F(_, _)
        F(acc, rest) == IF rest = <<>> THEN acc ELSE F(InsertAsc(acc, Head(rest)), Tail(rest))
    IN  F(<<>>, s)

\* sorted(non_zero, key=lambda x: x[1], reverse=True): stable, equal keys keep
\* their order
SortedDesc(s) ==
    LET RECURSIVE F(_, _)
        F(acc, rest) == IF rest = <<>> THEN acc ELSE F(InsertDesc(acc, Head(rest)), Tail(rest))
    IN  F(<<>>, s)

\* s[:k], also for k <= 0
TakeSlice(s, k) ==
    SubSeq(s, 1, IF k >= 0 THEN Min(k, Len(s)) ELSE Max(Len(s) + k, 0))

\* steps 3 and 4 of get_top_holders
TopN(d, dec, k) == TakeSlice(SortedDesc(NonZero(d, dec)), k)

\* if not transfer_events: return []
TopNoEvents ==
    /\ pc = "top_events"
    /\ events = <<>>
    /\ top_holders' = <<>>
    /\ pc' = IF op = "get_top_holders" THEN "done" ELSE "tx_start"
    /\ ret' = IF op = "get_top_holders" THEN Returned(<<>>) ELSE ret
    /\ UNCHANGED <<inVars, srvVars, scanVars, balances, results, lookVars>>

\* steps 2 to 4 of get_top_holders: no await between them
TopRank ==
    /\ pc = "top_events"
    /\ events # <<>>
    /\ balances' = Aggregate(<<>>, events)
    /\ top_holders' = TopN(balances', decimals, n)
    /\ pc' = IF op = "get_top_holders" THEN "done" ELSE "tx_start"
    /\ ret' = IF op = "get_top_holders" THEN Returned(top_holders') ELSE ret
    /\ UNCHANGED <<inVars, srvVars, scanVars, results, lookVars>>

RankNext ==
    \/ TopNoEvents
    \/ TopRank

\* the event sequences _get_all_transfer_events can hand to get_top_holders
EventSeqs ==
    LET ev == [from : Accounts, to : Accounts, value : Amounts]
    IN  { [j \in 1..Len(f) |-> [idx |-> j, blockNumber |-> j, from |-> f[j].from,
                                to |-> f[j].to, value |-> f[j].value]] :
            f \in UNION { [1..k -> ev] : k \in 0..MaxEvents } }

\* get_top_holders at the point where the scan has returned transfer_events
InitRank ==
    /\ op = "get_top_holders"
    /\ pc = "top_events"
    /\ events \in EventSeqs
    /\ n \in 1..MaxN
    /\ decimals \in {0, 1}
    /\ chain = <<>>
    /\ height = 0
    /\ chunk_size = 1
    /\ address = ZeroAddress
    /\ current_block = 0
    /\ from_block = 1
    /\ to_block = 0
    /\ retries = 0
    /\ queries = <<>>
    /\ balances = <<>>
    /\ top_holders = <<>>
    /\ results = <<>>
    /\ incoming_tx = <<>>
    /\ outgoing_tx = <<>>
    /\ lookups = <<>>
    /\ ret = NoValue
    /\ self_decimals = <<decimals>>
    /\ self_symbol = <<"TKN">>
    /\ addresses = <<>>
    /\ tasks = <<>>

SpecRank == InitRank /\ [][RankNext]_vars

\* ------------------------------------------------- the last-activity lookup
\* get_logs over 0..latest with topics [Transfer, None, address]: the node
\* answers with every matching log, ascending
LogsTo(c, a) == Ascending({ k \in 1..Len(c) : c[k].to = a })

\* get_logs over 0..latest with topics [Transfer, address, None]
LogsFrom(c, a) == Ascending({ k \in 1..Len(c) : c[k].from = a })

PickIncomingFirst(c, inc, out) ==
    IF inc # <<>> THEN inc[1] ELSE IF out # <<>> THEN out[1] ELSE 0

\* last_tx: the chain position picked from the two answers, 0 for None.
\* max(a, b, key=...) returns a when the keys are equal.
PickLast(c, inc, out) ==
    IF inc # <<>> /\ out # <<>>
    THEN (IF c[out[1]].blockNumber > c[inc[1]].blockNumber THEN out[1] ELSE inc[1])
    ELSE IF inc # <<>> THEN inc[1]
    ELSE IF out # <<>> THEN out[1]
    ELSE 0

\* block['timestamp'] of the node's block b
Timestamp(b) == 1600000000 + 2 * b

\* what _get_last_transaction_date returns: the formatted time of a block, or
\* one of the two fixed strings
DateOf(b)      == [kind |-> "date", block |-> b, timestamp |-> Timestamp(b)]
NoTransactionsAsError == [kind |-> "Error", block |-> 0, timestamp |-> 0]
NoTransactions == [kind |-> "No transactions", block |-> 0, timestamp |-> 0]
LookupError    == [kind |-> "Error", block |-> 0, timestamp |-> 0]

Lookup(kind, arg, outcome) == [kind |-> kind, arg |-> arg, outcome |-> outcome]

LookupReturnsAborting(v) ==
    IF op = "_get_last_transaction_date"
    THEN /\ pc' = "done"
         /\ ret' = Returned(v)
         /\ UNCHANGED <<address, results>>
    ELSE IF v.kind = "Error"
    THEN /\ pc' = "done"
         /\ ret' = Raised
         /\ UNCHANGED <<address, results>>
    ELSE LET row == <<address, top_holders[Len(results) + 1][2], v>>
             res == Append(results, row)
         IN  /\ results' = res
             /\ IF Len(res) = Len(top_holders)
                THEN /\ pc' = "done"
                     /\ ret' = Returned(res)
                     /\ UNCHANGED address
                ELSE /\ pc' = "lk_in"
                     /\ address' = top_holders[Len(res) + 1][1]
                     /\ UNCHANGED ret

\* _get_last_transaction_date returns v to whoever called it
LookupReturns(v) ==
    IF op = "_get_last_transaction_date"
    THEN /\ pc' = "done"
         /\ ret' = Returned(v)
         /\ UNCHANGED <<address, results>>
    ELSE LET row == <<address, top_holders[Len(results) + 1][2], v>>
             res == Append(results, row)
         IN  /\ results' = res
             /\ IF Len(res) = Len(top_holders)
                THEN /\ pc' = "done"
                     /\ ret' = Returned(res)
                     /\ UNCHANGED address
                ELSE /\ pc' = "lk_in"
                     /\ address' = top_holders[Len(res) + 1][1]
                     /\ UNCHANGED ret

LookupIncomingOk ==
    /\ pc = "lk_in"
    /\ incoming_tx' = LogsTo(chain, address)
    /\ lookups' = Append(lookups, Lookup("incoming", address, "ok"))
    /\ pc' = "lk_out"
    /\ UNCHANGED <<inVars, srvVars, scanVars, topVars, address, outgoing_tx, ret>>

\* the first get_logs raises: except Exception: return "Error"
LookupIncomingFails ==
    /\ pc = "lk_in"
    /\ lookups' = Append(lookups, Lookup("incoming", address, "error"))
    /\ LookupReturns(LookupError)
    /\ UNCHANGED <<inVars, srvVars, scanVars, balances, top_holders, incoming_tx, outgoing_tx>>

LookupOutgoingOk ==
    /\ pc = "lk_out"
    /\ outgoing_tx' = LogsFrom(chain, address)
    /\ lookups' = Append(lookups, Lookup("outgoing", address, "ok"))
    /\ pc' = "lk_pick"
    /\ UNCHANGED <<inVars, srvVars, scanVars, topVars, address, incoming_tx, ret>>

LookupOutgoingFails ==
    /\ pc = "lk_out"
    /\ lookups' = Append(lookups, Lookup("outgoing", address, "error"))
    /\ LookupReturns(LookupError)
    /\ UNCHANGED <<inVars, srvVars, scanVars, balances, top_holders, incoming_tx, outgoing_tx>>

\* last_tx is None: return "No transactions"
LookupNoTransactions ==
    /\ pc = "lk_pick"
    /\ PickLast(chain, incoming_tx, outgoing_tx) = 0
    /\ LookupReturns(NoTransactions)
    /\ UNCHANGED <<inVars, srvVars, scanVars, balances, top_holders, incoming_tx, outgoing_tx, lookups>>

\* if last_tx: get_block(last_tx['blockNumber']) and format its timestamp
LookupBlockOk ==
    /\ pc = "lk_pick"
    /\ PickLast(chain, incoming_tx, outgoing_tx) # 0
    /\ LET b == chain[PickLast(chain, incoming_tx, outgoing_tx)].blockNumber
       IN  /\ lookups' = Append(lookups, Lookup("block", b, "ok"))
           /\ LookupReturns(DateOf(b))
    /\ UNCHANGED <<inVars, srvVars, scanVars, balances, top_holders, incoming_tx, outgoing_tx>>

LookupBlockFails ==
    /\ pc = "lk_pick"
    /\ PickLast(chain, incoming_tx, outgoing_tx) # 0
    /\ LET b == chain[PickLast(chain, incoming_tx, outgoing_tx)].blockNumber
       IN  lookups' = Append(lookups, Lookup("block", b, "error"))
    /\ LookupReturns(LookupError)
    /\ UNCHANGED <<inVars, srvVars, scanVars, balances, top_holders, incoming_tx, outgoing_tx>>

LookupNext ==
    \/ LookupIncomingOk
    \/ LookupIncomingFails
    \/ LookupOutgoingOk
    \/ LookupOutgoingFails
    \/ LookupNoTransactions
    \/ LookupBlockOk
    \/ LookupBlockFails

\* the Transfer histories an account is looked up in
HistoryBlocks == (0..MaxHeight) \cup {100, 150}
HistoryLogs == RawLogs(HistoryBlocks, Accounts, Accounts, {40}, {TRUE})

\* _get_last_transaction_date called on its own
InitActivity ==
    /\ op = "_get_last_transaction_date"
    /\ pc = "lk_in"
    /\ address \in Holders
    /\ chain \in ChainsOf(HistoryLogs, MaxHistory)
    /\ height = 150
    /\ chunk_size = 1
    /\ n = 0
    /\ decimals = 0
    /\ current_block = 0
    /\ from_block = 0
    /\ to_block = 0
    /\ retries = 0
    /\ events = <<>>
    /\ queries = <<>>
    /\ balances = <<>>
    /\ top_holders = <<>>
    /\ results = <<>>
    /\ incoming_tx = <<>>
    /\ outgoing_tx = <<>>
    /\ lookups = <<>>
    /\ ret = NoValue
    /\ self_decimals = <<decimals>>
    /\ self_symbol = <<"TKN">>
    /\ addresses = <<>>
    /\ tasks = <<>>

SpecActivity == InitActivity /\ [][LookupNext]_vars

\* ------------------------------- get_top_holders, get_top_with_transactions
NeverEmpty(k) == FALSE

\* if n <= 0: return []
NonPositive(k) == k <= 0

\* get_top_holders is entered (by the caller, or by get_top_with_transactions)
TopStart ==
    /\ pc = "top_start"
    /\ IF NonPositive(n)
       THEN /\ top_holders' = <<>>
            /\ pc' = IF op = "get_top_holders" THEN "done" ELSE "tx_start"
            /\ ret' = IF op = "get_top_holders" THEN Returned(<<>>) ELSE ret
       ELSE /\ pc' = "scan_start"
            /\ UNCHANGED <<top_holders, ret>>
    /\ UNCHANGED <<inVars, srvVars, scanVars, balances, results, lookVars>>

\* except Exception: raise requests.HTTPError(...); nothing above catches it
TopExcept ==
    /\ pc = "top_except"
    /\ pc' = "done"
    /\ ret' = Raised
    /\ UNCHANGED <<inVars, srvVars, scanVars, topVars, lookVars>>

\* if not top_holders: return []; else the loop over top_holders starts
TxStart ==
    /\ pc = "tx_start"
    /\ IF top_holders = <<>>
       THEN /\ pc' = "done"
            /\ ret' = Returned(<<>>)
            /\ UNCHANGED <<results, address>>
       ELSE /\ results' = <<>>
            /\ address' = top_holders[1][1]
            /\ pc' = "lk_in"
            /\ UNCHANGED ret
    /\ UNCHANGED <<inVars, srvVars, scanVars, balances, top_holders, incoming_tx, outgoing_tx, lookups>>

\* An account that is ranked has received a transfer, so inside
\* get_top_with_transactions last_tx is never None (TopLookupFindsLog below).
TopNext ==
    \/ TopStart
    \/ ScanNext
    \/ TopNoEvents
    \/ TopRank
    \/ TopExcept
    \/ TxStart
    \/ LookupIncomingOk
    \/ LookupIncomingFails
    \/ LookupOutgoingOk
    \/ LookupOutgoingFails
    \/ LookupBlockOk
    \/ LookupBlockFails

\* the logs of the token whose holders are ranked
TopLogs == RawLogs(0..1, {ZeroAddress, 1}, Holders, {40}, {TRUE})

\* GET /get_top and GET /get_top_date, after startup has set decimals
InitTop ==
    /\ op \in {"get_top_holders", "get_top_with_transactions"}
    /\ pc = "top_start"
    /\ n \in (0 - 1)..MaxN
    /\ decimals = 0
    /\ chain \in ChainsOf(TopLogs, MaxLogs)
    /\ height = 1
    /\ chunk_size \in 1..2
    /\ address = ZeroAddress
    /\ current_block = 0
    /\ from_block = 0
    /\ to_block = 0
    /\ retries = 0
    /\ events = <<>>
    /\ queries = <<>>
    /\ balances = <<>>
    /\ top_holders = <<>>
    /\ results = <<>>
    /\ incoming_tx = <<>>
    /\ outgoing_tx = <<>>
    /\ lookups = <<>>
    /\ ret = NoValue
    /\ self_decimals = <<decimals>>
    /\ self_symbol = <<"TKN">>
    /\ addresses = <<>>
    /\ tasks = <<>>

SpecTop == InitTop /\ [][TopNext]_vars

\* in SpecTop a lookup that got both answers has a log to pick
TopLookupFindsLog ==
    (op = "get_top_with_transactions" /\ pc = "lk_pick")
        => PickLast(chain, incoming_tx, outgoing_tx) # 0

\* ------------------------------------------- startup and get_balance_batch
\* balanceOf(a) of the token contract: what a received minus what a sent
RECURSIVE BalanceOf(_, _)
BalanceOf(c, a) ==
    IF c = <<>> THEN 0
    ELSE (IF Head(c).to = a THEN Head(c).value ELSE 0)
         - (IF Head(c).from = a THEN Head(c).value ELSE 0)
         + BalanceOf(Tail(c), a)

\* _to_decimal(value) = value / (10 ** self.decimals)
ToDecimal(value) == Display(value, self_decimals[1])

\* initialize(): self.decimals = await decimals().call()
InitializeDecimalsOk ==
    /\ pc = "startup"
    /\ self_decimals' = <<decimals>>
    /\ pc' = "startup_symbol"
    /\ UNCHANGED <<inVars, scanVars, topVars, lookVars, ret, self_symbol, addresses, tasks>>

\* the decimals call raises: startup fails, the application serves nothing
InitializeDecimalsFails ==
    /\ pc = "startup"
    /\ pc' = "done"
    /\ ret' = Raised
    /\ UNCHANGED <<inVars, scanVars, topVars, lookVars, srvVars>>

\* initialize(): self.symbol = await symbol().call()
InitializeSymbolOk ==
    /\ pc = "startup_symbol"
    /\ self_symbol' = <<"TKN">>
    /\ pc' = "serving"
    /\ UNCHANGED <<inVars, scanVars, topVars, lookVars, ret, self_decimals, addresses, tasks>>

\* the symbol call raises, after self.decimals was assigned
InitializeSymbolFails ==
    /\ pc = "startup_symbol"
    /\ pc' = "done"
    /\ ret' = Raised
    /\ UNCHANGED <<inVars, scanVars, topVars, lookVars, srvVars>>

\* get_balance_batch: tasks = [...]; await asyncio.gather(*tasks)
BatchStart ==
    /\ pc = "serving"
    /\ tasks' = [i \in 1..Len(addresses) |-> "pending"]
    /\ pc' = "gather"
    /\ UNCHANGED <<inVars, scanVars, topVars, lookVars, ret, self_decimals, self_symbol, addresses>>

\* what gather returns once every task has a result: the balances in task order
GatherResult(c, addrs) == [i \in 1..Len(addrs) |-> ToDecimal(BalanceOf(c, addrs[i]))]

\* the balanceOf call of task i answers; gather returns when it was the last one
TaskOk ==
    \E i \in 1..Len(tasks) :
        /\ tasks[i] = "pending"
        /\ tasks' = [tasks EXCEPT ![i] = "ok"]
        /\ IF pc = "gather" /\ \A j \in 1..Len(tasks) : tasks'[j] = "ok"
           THEN pc' = "done" /\ ret' = Returned(GatherResult(chain, addresses))
           ELSE UNCHANGED <<pc, ret>>
        /\ UNCHANGED <<inVars, scanVars, topVars, lookVars, self_decimals, self_symbol, addresses>>

\* the balanceOf call of task i raises: gather (return_exceptions=False) raises
\* the first exception to get_balance_batch at once, whose caller in server.py
\* turns it into HTTP 400; the other tasks run on
TaskFails ==
    \E i \in 1..Len(tasks) :
        /\ tasks[i] = "pending"
        /\ tasks' = [tasks EXCEPT ![i] = "failed"]
        /\ IF pc = "gather"
           THEN pc' = "done" /\ ret' = Raised
           ELSE UNCHANGED <<pc, ret>>
        /\ UNCHANGED <<inVars, scanVars, topVars, lookVars, self_decimals, self_symbol, addresses>>

ServerNext ==
    \/ InitializeDecimalsOk
    \/ InitializeDecimalsFails
    \/ InitializeSymbolOk
    \/ InitializeSymbolFails
    \/ BatchStart
    \/ TaskOk
    \/ TaskFails

\* the logs that made the balances a batch asks for
BatchLogs == RawLogs({0}, {ZeroAddress}, Holders, Amounts, {TRUE})

\* the application starts (startup_event), then serves GET /get_balance_batch,
\* whose addresses parameter is required
InitServer ==
    /\ op = "get_balance_batch"
    /\ pc = "startup"
    /\ self_decimals = <<>>
    /\ self_symbol = <<>>
    /\ decimals \in {0, 1}
    /\ addresses \in UNION { [1..k -> Holders] : k \in 1..MaxBatch }
    /\ tasks = <<>>
    /\ chain \in ChainsOf(BatchLogs, MaxLogs)
    /\ height = 0
    /\ chunk_size = 1
    /\ n = 0
    /\ address = ZeroAddress
    /\ current_block = 0
    /\ from_block = 0
    /\ to_block = 0
    /\ retries = 0
    /\ events = <<>>
    /\ queries = <<>>
    /\ balances = <<>>
    /\ top_holders = <<>>
    /\ results = <<>>
    /\ incoming_tx = <<>>
    /\ outgoing_tx = <<>>
    /\ lookups = <<>>
    /\ ret = NoValue

SpecServer == InitServer /\ [][ServerNext]_vars

\* ---------------------------------------------------------------- claims
ScanDone == op = "_get_all_transfer_events" /\ pc = "done" /\ ret.kind = "return"
AllQueriesOk == \A j \in 1..Len(queries) : queries[j].outcome = "ok"
CeilDiv(a, b) == (a + b - 1) \div b
Covering(b) ==
    { j \in 1..Len(queries) : queries[j].fromBlock <= b /\ b <= queries[j].toBlock }

\* C1: when every range query succeeds, the scan over [0, H] with chunk size C
\* issues exactly ceil((H+1)/C) queries; their ranges start at 0, end at H, are
\* contiguous, and every block of 0..H lies in exactly one of them.
C1_ChunksPartitionRange ==
    (ScanDone /\ AllQueriesOk) =>
        /\ Len(queries) = CeilDiv(height + 1, chunk_size)
        /\ queries[1].fromBlock = 0
        /\ queries[Len(queries)].toBlock = height
        /\ \A j \in 1..Len(queries) : queries[j].fromBlock <= queries[j].toBlock
        /\ \A j \in 1..(Len(queries) - 1) :
              queries[j + 1].fromBlock = queries[j].toBlock + 1
        /\ \A b \in 0..height : Cardinality(Covering(b)) = 1

\* a finished all-success scan of several chunks whose last chunk is truncated
C1_Witness ==
    /\ ScanDone /\ AllQueriesOk
    /\ Len(queries) >= 2
    /\ queries[Len(queries)].toBlock - queries[Len(queries)].fromBlock + 1 < chunk_size

\* the queries j, j+1, j+2 are attempts 1, 2, 3 of one chunk, ending o1, o2, o3
Attempts(j, o1, o2, o3) ==
    /\ j + 2 <= Len(queries)
    /\ queries[j].attempt = 1 /\ queries[j].outcome = o1
    /\ queries[j + 1].attempt = 2 /\ queries[j + 1].outcome = o2
    /\ queries[j + 2].attempt = 3 /\ queries[j + 2].outcome = o3

Copies(k) == Cardinality({ i \in 1..Len(events) : events[i].idx = k })

\* C2: a chunk whose query times out on all 3 attempts contributes no event and
\* the scan proceeds to the next chunk: the query that follows the third timeout
\* starts at the abandoned chunk's toBlock + 1.
C2_ExhaustedChunkAbandoned ==
    \A j \in 1..(Len(queries) - 3) :
        Attempts(j, "timeout", "timeout", "timeout") =>
            queries[j + 3].fromBlock = queries[j + 2].toBlock + 1

\* C3: after a non-timeout failure of a chunk's query the next query is for the
\* next chunk: it starts at the failed chunk's toBlock + 1.
C3_ErrorChunkSkipped ==
    \A j \in 1..(Len(queries) - 1) :
        queries[j].outcome = "error" =>
            queries[j + 1].fromBlock = queries[j].toBlock + 1

\* C4: a chunk that times out on attempts 1 and 2 and succeeds on attempt 3 has
\* each of its decodable logs in events exactly once, and the window is past it.
C4_ThirdAttemptOnce ==
    \A j \in 1..(Len(queries) - 2) :
        Attempts(j, "timeout", "timeout", "ok") =>
            /\ \A k \in 1..Len(chain) :
                  ( /\ chain[k].ok
                    /\ queries[j].fromBlock <= chain[k].blockNumber
                    /\ chain[k].blockNumber <= queries[j].toBlock ) => Copies(k) = 1
            /\ from_block > queries[j + 2].toBlock

\* such a chunk holding a decodable log, fetched on its third attempt
C4_Witness ==
    \E j \in 1..(Len(queries) - 2) :
        /\ Attempts(j, "timeout", "timeout", "ok")
        /\ \E k \in 1..Len(chain) :
              /\ chain[k].ok
              /\ queries[j].fromBlock <= chain[k].blockNumber
              /\ chain[k].blockNumber <= queries[j].toBlock
              /\ Copies(k) = 1

RankDone == op = "get_top_holders" /\ pc = "done" /\ events # <<>>
Permuted(s, p) == [j \in 1..Len(s) |-> s[p[j]]]
Orders == Permutations(1..Len(events))
\* a dict as a mapping: its (key, value) pairs without their order
AsMap(d) == { <<d[j][1], d[j][2]>> : j \in 1..Len(d) }
Keys(d) == { d[j][1] : j \in 1..Len(d) }
\* the ledger balance of account a (0 when a is no key)
Bal(a) ==
    IF a \in Keys(balances)
    THEN balances[CHOOSE j \in 1..Len(balances) : balances[j][1] = a][2]
    ELSE 0
RECURSIVE Received(_, _)
Received(evs, a) ==
    IF evs = <<>> THEN 0
    ELSE (IF Head(evs).to = a THEN Head(evs).value ELSE 0) + Received(Tail(evs), a)
RECURSIVE Sent(_, _)
Sent(evs, a) ==
    IF evs = <<>> THEN 0
    ELSE (IF Head(evs).from = a THEN Head(evs).value ELSE 0) + Sent(Tail(evs), a)

\* C5: folding the events in any order gives the same account-to-balance mapping.
C5_FoldOrderIndependent ==
    RankDone =>
        \A p \in Orders : AsMap(Aggregate(<<>>, Permuted(events, p))) = AsMap(balances)

\* at least two events, and an order of them that builds the dict in another key order
C5_Witness ==
    /\ RankDone
    /\ Len(events) >= 2
    /\ \E p \in Orders : Aggregate(<<>>, Permuted(events, p)) # balances

\* the scenario of the specification: zero -> A 100, then A -> B 40
MintThenTransfer ==
    /\ Len(events) = 2
    /\ events[1].from = ZeroAddress /\ events[1].to = 1 /\ events[1].value = 100
    /\ events[2].from = 1 /\ events[2].to = 2 /\ events[2].value = 40

\* C6: every key of the ledger is a non-zero account whose balance is what it
\* received minus what it sent, an account that is no key received and sent
\* nothing, and [(zero -> A, 100), (A -> B, 40)] gives {A: 60, B: 40}.
C6_NetBalances ==
    RankDone =>
        /\ \A j \in 1..Len(balances) :
              /\ balances[j][1] # ZeroAddress
              /\ balances[j][2] = Received(events, balances[j][1]) - Sent(events, balances[j][1])
              /\ \A i \in 1..Len(balances) : balances[i][1] = balances[j][1] => i = j
        /\ \A a \in Holders \ Keys(balances) :
              Received(events, a) = 0 /\ Sent(events, a) = 0
        /\ MintThenTransfer => AsMap(balances) = { <<1, 60>>, <<2, 40>> }

C6_Witness == RankDone /\ MintThenTransfer /\ AsMap(balances) = { <<1, 60>>, <<2, 40>> }

Ranked == { top_holders[j][1] : j \in 1..Len(top_holders) }

C8_TiesByAccount ==
    RankDone =>
        /\ \A j \in 1..(Len(top_holders) - 1) :
              Bal(top_holders[j][1]) = Bal(top_holders[j + 1][1])
                  => top_holders[j][1] < top_holders[j + 1][1]
        /\ \A p \in Orders :
              TopN(Aggregate(<<>>, Permuted(events, p)), decimals, n) = top_holders

\* C9: for n <= 0, get_top_holders and get_top_with_transactions return an empty
\* ranking, raise nothing and issue no activity lookup (get_logs or get_block
\* for an account).
C9_NonPositiveNEmpty ==
    n <= 0 =>
        /\ lookups = <<>>
        /\ ret.kind # "raise"
        /\ pc = "done" => ret = Returned(<<>>)

\* get_top_with_transactions(-1) has returned, on a chain with two transfers
C9_Witness ==
    /\ op = "get_top_with_transactions"
    /\ n = 0 - 1
    /\ Len(chain) >= 2
    /\ pc = "done"
    /\ ret = Returned(<<>>)

\* the greatest block with a transfer from or to account a
LastActivityBlock(c, a) ==
    LET blocks == { c[k].blockNumber : k \in { j \in 1..Len(c) : c[j].from = a \/ c[j].to = a } }
    IN  CHOOSE b \in blocks : \A x \in blocks : x <= b

\* C10: the block whose timestamp _get_last_transaction_date returns is the
\* greatest block number among all transfers the account sent or received.
C10_LatestBlockOfAccount ==
    (op = "_get_last_transaction_date" /\ pc = "done" /\ ret.value.kind = "date")
        => ret.value.block = LastActivityBlock(chain, address)

ActivityDone == op = "_get_last_transaction_date" /\ pc = "done"
BothAnswered ==
    /\ Len(lookups) >= 2
    /\ lookups[1].kind = "incoming" /\ lookups[1].outcome = "ok"
    /\ lookups[2].kind = "outgoing" /\ lookups[2].outcome = "ok"
\* the block number of the match a query returned: the first log of its answer
MatchBlock(tx) == chain[tx[1]].blockNumber

\* C11: when both queries return a match the block fetched is the greater of
\* the two matches' block numbers (incoming at 100, outgoing at 150: block 150);
\* when exactly one returns a match, that match's block is fetched.
C11_GreaterMatchSelected ==
    (ActivityDone /\ BothAnswered) =>
        /\ (incoming_tx # <<>> /\ outgoing_tx # <<>>) =>
              /\ Len(lookups) = 3
              /\ lookups[3].kind = "block"
              /\ lookups[3].arg = Max(MatchBlock(incoming_tx), MatchBlock(outgoing_tx))
              /\ (MatchBlock(incoming_tx) = 100 /\ MatchBlock(outgoing_tx) = 150)
                    => lookups[3].arg = 150
        /\ (incoming_tx # <<>> /\ outgoing_tx = <<>>) =>
              Len(lookups) = 3 /\ lookups[3].kind = "block"
                               /\ lookups[3].arg = MatchBlock(incoming_tx)
        /\ (incoming_tx = <<>> /\ outgoing_tx # <<>>) =>
              Len(lookups) = 3 /\ lookups[3].kind = "block"
                               /\ lookups[3].arg = MatchBlock(outgoing_tx)

\* incoming at block 100, outgoing at block 150, and block 150's time returned
C11_Witness ==
    /\ ActivityDone /\ BothAnswered
    /\ incoming_tx # <<>> /\ outgoing_tx # <<>>
    /\ MatchBlock(incoming_tx) = 100 /\ MatchBlock(outgoing_tx) = 150
    /\ ret = Returned(DateOf(150))

\* C12: if one of the two activity queries errors and the other returns a
\* match, the resolver returns the time of that match's block, not "Error".
C12_FallbackOnQueryError ==
    ActivityDone =>
        /\ ( /\ Len(lookups) = 2
             /\ lookups[2].kind = "outgoing" /\ lookups[2].outcome = "error"
             /\ incoming_tx # <<>> )
           => ret.value.kind = "date"
        /\ ( /\ Len(lookups) = 1
             /\ lookups[1].outcome = "error"
             /\ LogsFrom(chain, address) # <<>> )
           => ret.value.kind = "date"

\* C13: when both queries succeed and return no match the resolver returns
\* "No transactions", which is not the "Error" sentinel, and fetches no block.
C13_NoActivitySentinel ==
    (ActivityDone /\ BothAnswered /\ incoming_tx = <<>> /\ outgoing_tx = <<>>) =>
        /\ ret.kind = "return"
        /\ ret.value.kind = "No transactions"
        /\ ret.value # LookupError
        /\ \A j \in 1..Len(lookups) : lookups[j].kind # "block"

\* an account that no log of a non-empty history names, looked up
C13_Witness ==
    /\ ActivityDone /\ BothAnswered
    /\ chain # <<>>
    /\ incoming_tx = <<>> /\ outgoing_tx = <<>>
    /\ ret.value.kind = "No transactions"

TxDone == op = "get_top_with_transactions" /\ pc = "done" /\ top_holders # <<>>
\* where the lookup of the j-th ranked account starts and ends in lookups
LookupStart(j) ==
    CHOOSE i \in 1..Len(lookups) :
        lookups[i].kind = "incoming" /\ lookups[i].arg = top_holders[j][1]
LookupEnd(j) == IF j < Len(top_holders) THEN LookupStart(j + 1) - 1 ELSE Len(lookups)
LookupFailed(j) == \E i \in LookupStart(j)..LookupEnd(j) : lookups[i].outcome = "error"

\* C14: get_top_with_transactions returns one row per ranked account, in ranking
\* order with the ranking's balances; every account was looked up, and a row
\* holds "Error" exactly when a query of that account's own lookup failed.
C14_LookupFailureIsolated ==
    TxDone =>
        /\ ret.kind = "return"
        /\ Len(ret.value) = Len(top_holders)
        /\ \A j \in 1..Len(top_holders) :
              /\ ret.value[j][1] = top_holders[j][1]
              /\ ret.value[j][2] = top_holders[j][2]
              /\ \E i \in 1..Len(lookups) :
                    lookups[i].kind = "incoming" /\ lookups[i].arg = top_holders[j][1]
              /\ (ret.value[j][3].kind = "Error") <=> LookupFailed(j)

\* two ranked accounts: the first lookup failed, the second returned a date
C14_Witness ==
    /\ TxDone
    /\ Len(top_holders) = 2
    /\ ret.kind = "return"
    /\ ret.value[1][3].kind = "Error"
    /\ ret.value[2][3].kind = "date"

IdxOf(evs) == [j \in 1..Len(evs) |-> evs[j].idx]
InRange(b, q) == q.fromBlock <= b /\ b <= q.toBlock
\* the events appended for the blocks of query q, in the order they were appended
EventsOfRange(q) ==
    LET RECURSIVE F(_)
        F(j) == IF j > Len(events) THEN <<>>
                ELSE (IF InRange(events[j].blockNumber, q) THEN <<events[j].idx>> ELSE <<>>)
                     \o F(j + 1)
    IN  F(1)
Decodable(q) == { k \in 1..Len(chain) : chain[k].ok /\ InRange(chain[k].blockNumber, q) }

\* C16: in a chunk that was fetched, a log that fails to decode is skipped: all
\* other logs of the chunk are in events, in order; the chunk is complete (the
\* next query is attempt 1 of the next chunk) and the scan has not aborted.
C16_DecodeErrorSkipped ==
    \A j \in 1..Len(queries) :
        queries[j].outcome = "ok" =>
            /\ EventsOfRange(queries[j]) = Ascending(Decodable(queries[j]))
            /\ from_block > queries[j].toBlock
            /\ j < Len(queries) =>
                  /\ queries[j + 1].fromBlock = queries[j].toBlock + 1
                  /\ queries[j + 1].attempt = 1
            /\ ret.kind # "raise"

\* a fetched chunk with an undecodable log followed by a decodable one
C16_Witness ==
    \E j \in 1..Len(queries) :
        /\ queries[j].outcome = "ok"
        /\ \E k \in 1..(Len(chain) - 1) :
              /\ ~ chain[k].ok /\ InRange(chain[k].blockNumber, queries[j])
              /\ chain[k + 1].ok /\ InRange(chain[k + 1].blockNumber, queries[j])
              /\ Copies(k) = 0 /\ Copies(k + 1) = 1

SameRange(j) ==
    { i \in 1..Len(queries) : /\ queries[i].fromBlock = queries[j].fromBlock
                              /\ queries[i].toBlock = queries[j].toBlock }

\* C18: each chunk is queried at most 3 times, so a scan over [0, H] issues at
\* most 3 * ceil((H+1)/C) range queries.
C18_BoundedQueries ==
    /\ \A j \in 1..Len(queries) : Cardinality(SameRange(j)) <= max_retries
    /\ Len(queries) <= max_retries * CeilDiv(height + 1, chunk_size)

\* C19: under any pattern of timeouts and errors no raw log is in events twice.
C19_NoDuplicateEvents ==
    op = "_get_all_transfer_events" => \A k \in 1..Len(chain) : Copies(k) <= 1

\* a log fetched after its chunk's query had timed out and had failed
C19_Witness ==
    /\ op = "_get_all_transfer_events"
    /\ \E k \in 1..Len(chain), i, j \in 1..Len(queries) :
          /\ Copies(k) = 1
          /\ InRange(chain[k].blockNumber, queries[i]) /\ queries[i].outcome = "timeout"
          /\ InRange(chain[k].blockNumber, queries[j]) /\ queries[j].outcome = "error"

BatchSettled ==
    /\ op = "get_balance_batch"
    /\ tasks # <<>>
    /\ \A i \in 1..Len(tasks) : tasks[i] # "pending"

\* C15: when one balance query of a batch fails and another succeeds, under
\* every order of completion the caller receives the successful balances with a
\* failure marker for the failed one: the batch as a whole does not fail.
C15_BatchFailureIsolated ==
    ( /\ BatchSettled
      /\ \E i \in 1..Len(tasks) : tasks[i] = "failed"
      /\ \E i \in 1..Len(tasks) : tasks[i] = "ok" )
    => /\ ret.kind = "return"
       /\ Len(ret.value) = Len(addresses)
       /\ \A i \in 1..Len(tasks) :
             tasks[i] = "ok" => ret.value[i] = ToDecimal(BalanceOf(chain, addresses[i]))

\* C17: the metadata of the shared analyzer is set all-or-nothing: decimals is
\* set exactly when symbol is.
C17_MetadataAllOrNothing == (self_decimals = <<>>) <=> (self_symbol = <<>>)

====
